---- MODULE Spec2Model ----
(***************************************************************************)
(* A model of the CRM GraphQL schema of crm/schema.py: the three tables    *)
(* (Customer, Product, Order) behind the ORM, the four mutations           *)
(* (createCustomer, bulkCreateCustomers, createProduct, createOrder) and   *)
(* the three list queries.                                                 *)
(*                                                                         *)
(* Conventions.                                                            *)
(*  - A Python str is a sequence of one-character strings, so that the     *)
(*    phone pattern is matched character by character.                     *)
(*  - An optional argument is a sequence of length 0 (omitted / None) or 1 *)
(*    (supplied).                                                          *)
(*  - A raised exception is the field "error" of the response; the empty   *)
(*    string is a response without errors.                                 *)
(*  - Prices are integers (hundredths), dates are integers.                *)
(***************************************************************************)
EXTENDS Integers, Sequences, FiniteSets, TLC

VARIABLES Customer, Product, Order, last, reqs

vars == <<Customer, Product, Order, last, reqs>>

(***************************************************************************)
(* Optional values and Python strings                                      *)
(***************************************************************************)
None == <<>>

Some(x) == <<x>>

IsNone(o) == Len(o) = 0

Val(o) == o[1]

NoError == ""

DigitChars == <<"1", "2", "3", "4", "5", "6", "7", "8", "9", "0">>

IsDigit(c) == \E i \in 1..Len(DigitChars) : DigitChars[i] = c

\* \d of a str pattern: any Unicode decimal digit, the ASCII ones and others
\* (here the Arabic-Indic digit three, written by its code point)
OtherDigits == {"U+0663"}

MatchesBackslashD(c) == IsDigit(c) \/ c \in OtherDigits

\* the string of n digits "1234567890123..."
Digs(n) == [i \in 1..n |-> DigitChars[((i - 1) % 10) + 1]]

(***************************************************************************)
(* PHONE_REGEX = ^(\+\d{10,15}|\d{3}-\d{3}-\d{4})$ and re.match            *)
(***************************************************************************)
MinIntlDigits == 10

MaxIntlDigits == 15

AllDigits(s, from, to) ==
  \A i \in from..to : i <= Len(s) /\ MatchesBackslashD(s[i])

\* \+\d{10,15} matched at the start of s: the positions right after a match
\* (the engine tries the longest repetition first and backtracks).
MatchIntl(s) ==
  {2 + k : k \in {n \in MinIntlDigits..MaxIntlDigits :
                    /\ Len(s) >= 1 + n
                    /\ s[1] = "+"
                    /\ AllDigits(s, 2, 1 + n)}}

\* \d{3}-\d{3}-\d{4} matched at the start of s
MatchDashed(s) ==
  IF /\ Len(s) >= 12
     /\ AllDigits(s, 1, 3) /\ s[4] = "-"
     /\ AllDigits(s, 5, 7) /\ s[8] = "-"
     /\ AllDigits(s, 9, 12)
  THEN {13} ELSE {}

\* "$" without re.MULTILINE: the end of the string, or just before a newline
\* that is the last character of the string.
DollarAt(s, pos) ==
  \/ pos = Len(s) + 1
  \/ pos = Len(s) /\ s[pos] = "\n"

\* PHONE_REGEX.match(phone) is not None
PHONE_REGEX_match(s) ==
  \E pos \in MatchIntl(s) \cup MatchDashed(s) : DollarAt(s, pos)

\* Python truthiness of an optional str: None and "" are falsy.
Truthy(phone) == ~IsNone(phone) /\ Len(Val(phone)) > 0

\* validate_phone(phone) raises Exception("Invalid phone format")
validate_phone_raises(phone) ==
  Truthy(phone) /\ ~PHONE_REGEX_match(Val(phone))

(***************************************************************************)
(* The persistence layer: the Customer table                               *)
(***************************************************************************)
EmptyTable == [rows |-> {}, seq |-> 0]

\* the existence query on the wrong column: filter(name=email)
EmailExists_ByName(tbl, email) == \E c \in tbl.rows : c.name = email

\* Customer.objects.filter(email=email).exists()
EmailExists(tbl, email) == \E c \in tbl.rows : c.email = email

\* the INSERT into a table whose email column is not unique
CustomerCreate_NoConstraint(tbl, name, email, phone) ==
  LET row == [id |-> tbl.seq + 1, name |-> name, email |-> email,
              phone |-> phone]
  IN [error |-> NoError,
      tbl |-> [rows |-> tbl.rows \cup {row}, seq |-> tbl.seq + 1],
      row |-> Some(row)]

\* Customer.objects.create(name=, email=, phone=): the INSERT. The column
\* email is unique: the database refuses a second row with the same email
\* (IntegrityError) and leaves the table as it was.
CustomerCreate(tbl, name, email, phone) ==
  IF \E c \in tbl.rows : c.email = email
  THEN [error |-> "IntegrityError", tbl |-> tbl, row |-> None]
  ELSE LET row == [id |-> tbl.seq + 1, name |-> name, email |-> email,
                   phone |-> phone]
       IN [error |-> NoError,
           tbl |-> [rows |-> tbl.rows \cup {row}, seq |-> tbl.seq + 1],
           row |-> Some(row)]

(***************************************************************************)
(* CreateCustomer.mutate                                                   *)
(***************************************************************************)
CreateCustomerMutate(tbl, name, email, phone) ==
  IF EmailExists(tbl, email)
  THEN [tbl |-> tbl, error |-> "Email already exists"]
  ELSE IF validate_phone_raises(phone)
  THEN [tbl |-> tbl, error |-> "Invalid phone format"]
  ELSE LET ins == CustomerCreate(tbl, name, email, phone)
       IN IF ins.error # NoError
          THEN [tbl |-> tbl, error |-> ins.error]
          ELSE [tbl |-> ins.tbl, error |-> NoError,
                customer |-> Val(ins.row),
                message |-> "Customer created successfully"]

\* the createCustomer request, handled from start to end
CreateCustomer(name, email, phone) ==
  LET r == CreateCustomerMutate(Customer, name, email, phone)
  IN /\ Customer' = r.tbl
     /\ last' = [op |-> "createCustomer", name |-> name, email |-> email,
                 phone |-> phone, error |-> r.error,
                 customer |-> IF r.error = NoError THEN Some(r.customer)
                              ELSE None]
     /\ UNCHANGED <<Product, Order, reqs>>

(***************************************************************************)
(* BulkCreateCustomers.mutate                                              *)
(***************************************************************************)
\* the row number without the + 1
RowError_ZeroBased(idx, msg) == <<"Row ", idx, ": ", msg>>

\* f"Row {idx + 1}: {str(e)}", idx the 0-based position of enumerate
RowError(idx, msg) == <<"Row ", idx + 1, ": ", msg>>

\* what a query raises once an error has marked the transaction for rollback
BrokenTransaction == "TransactionManagementError"

\* the loop body without the existence query
BulkRow_NoCheck(st, idx, data) ==
  IF st.broken
  THEN [st EXCEPT !.errors = Append(@, RowError(idx, BrokenTransaction))]
  ELSE IF validate_phone_raises(data.phone)
  THEN [st EXCEPT !.errors = Append(@, RowError(idx, "Invalid phone format"))]
  ELSE LET ins == CustomerCreate(st.tbl, data.name, data.email, data.phone)
       IN IF ins.error # NoError
          THEN [st EXCEPT !.errors = Append(@, RowError(idx, ins.error)),
                          !.broken = TRUE]
          ELSE [st EXCEPT !.tbl = ins.tbl,
                          !.created = Append(@, Val(ins.row))]

\* one iteration of the for loop: the body of the try, and the except. st is
\* the state of the call: the table, created, errors, and whether an error
\* of the database has marked the atomic block for rollback.
BulkRow(st, idx, data) ==
  IF st.broken
  THEN [st EXCEPT !.errors = Append(@, RowError(idx, BrokenTransaction))]
  ELSE IF EmailExists(st.tbl, data.email)
  THEN [st EXCEPT !.errors = Append(@, RowError(idx, "Email already exists"))]
  ELSE IF validate_phone_raises(data.phone)
  THEN [st EXCEPT !.errors = Append(@, RowError(idx, "Invalid phone format"))]
  ELSE LET ins == CustomerCreate(st.tbl, data.name, data.email, data.phone)
       IN IF ins.error # NoError
          THEN [st EXCEPT !.errors = Append(@, RowError(idx, ins.error)),
                          !.broken = TRUE]
          ELSE [st EXCEPT !.tbl = ins.tbl,
                          !.created = Append(@, Val(ins.row))]

RECURSIVE BulkLoop(_, _, _)
\* for idx, data in enumerate(input), from position idx (0-based) on
BulkLoop(st, input, idx) ==
  IF idx >= Len(input) THEN st
  ELSE BulkLoop(BulkRow(st, idx, input[idx + 1]), input, idx + 1)

\* leaving "with transaction.atomic()": commit, or roll back the rows of the
\* block when it was marked for rollback (the sequence is not rolled back)
AtomicExit(tbl, created, broken) ==
  IF broken
  THEN [tbl EXCEPT !.rows = @ \ {created[i] : i \in 1..Len(created)}]
  ELSE tbl

BulkCreateCustomersMutate(tbl, input) ==
  LET st == BulkLoop([tbl |-> tbl, created |-> <<>>, errors |-> <<>>,
                      broken |-> FALSE], input, 0)
  IN [tbl |-> AtomicExit(st.tbl, st.created, st.broken), error |-> NoError,
      customers |-> st.created, errors |-> st.errors]

BulkCreateCustomers(input) ==
  LET r == BulkCreateCustomersMutate(Customer, input)
  IN /\ Customer' = r.tbl
     /\ last' = [op |-> "bulkCreateCustomers", input |-> input,
                 error |-> r.error, customers |-> r.customers,
                 errors |-> r.errors]
     /\ UNCHANGED <<Product, Order, reqs>>

(***************************************************************************)
(* CreateProduct.mutate                                                    *)
(***************************************************************************)
\* update_or_create(name=name, ...): a product of that name is overwritten
ProductCreate_Upsert(tbl, name, price, stock) ==
  LET old == {p \in tbl.rows : p.name = name}
      row == [id |-> IF old = {} THEN tbl.seq + 1
                     ELSE (CHOOSE p \in old : TRUE).id,
              name |-> name, price |-> price, stock |-> stock]
  IN [tbl |-> [rows |-> (tbl.rows \ old) \cup {row},
               seq |-> IF old = {} THEN tbl.seq + 1 ELSE tbl.seq],
      row |-> row]

\* Product.objects.create(name=, price=, stock=)
ProductCreate(tbl, name, price, stock) ==
  LET row == [id |-> tbl.seq + 1, name |-> name, price |-> price,
              stock |-> stock]
  IN [tbl |-> [rows |-> tbl.rows \cup {row}, seq |-> tbl.seq + 1], row |-> row]

\* the default of the keyword argument: stock=0
DefaultStock == 0

StockArg(stock) == IF IsNone(stock) THEN DefaultStock ELSE Val(stock)

\* the price check with < for <=
CreateProductMutate_ZeroPrice(tbl, name, price, stock) ==
  IF price < 0
  THEN [tbl |-> tbl, error |-> "Price must be positive"]
  ELSE IF StockArg(stock) < 0
  THEN [tbl |-> tbl, error |-> "Stock cannot be negative"]
  ELSE LET ins == ProductCreate(tbl, name, price, StockArg(stock))
       IN [tbl |-> ins.tbl, error |-> NoError, product |-> ins.row]

CreateProductMutate(tbl, name, price, stock) ==
  IF price <= 0
  THEN [tbl |-> tbl, error |-> "Price must be positive"]
  ELSE IF StockArg(stock) < 0
  THEN [tbl |-> tbl, error |-> "Stock cannot be negative"]
  ELSE LET ins == ProductCreate(tbl, name, price, StockArg(stock))
       IN [tbl |-> ins.tbl, error |-> NoError, product |-> ins.row]

(***************************************************************************)
(* CreateOrder.mutate                                                      *)
(***************************************************************************)
Range(s) == {s[i] : i \in 1..Len(s)}

\* Customer.objects.get(pk=customer_id): the rows with that primary key
CustomerGet(tbl, customer_id) == {c \in tbl.rows : c.id = customer_id}

\* Product.objects.filter(id__in=product_ids): a queryset, each row once
ProductFilterIdIn(tbl, product_ids) ==
  {p \in tbl.rows : p.id \in Range(product_ids)}

RECURSIVE SumPrices(_)
\* sum([p.price for p in products])
SumPrices(products) ==
  IF products = {} THEN 0
  ELSE LET p == CHOOSE q \in products : TRUE
       IN p.price + SumPrices(products \ {p})

\* the order time stamped without looking at the argument
OrderDate_Now(order_date, now) == now

\* order_date or timezone.now(): a datetime is never falsy
OrderDate(order_date, now) == IF IsNone(order_date) THEN now ELSE Val(order_date)

\* Order.objects.create(...) and order.products.set(products)
OrderCreate(tbl, customer, total_amount, order_date, products) ==
  LET row == [id |-> tbl.seq + 1, customer |-> customer.id,
              total_amount |-> total_amount, order_date |-> order_date,
              products |-> {p.id : p \in products}]
  IN [tbl |-> [rows |-> tbl.rows \cup {row}, seq |-> tbl.seq + 1], row |-> row]

\* only a list of which no id resolves is refused
CountMismatch_NoneFound(products, product_ids) == Cardinality(products) = 0

\* products.count() != len(product_ids)
CountMismatch(products, product_ids) == Cardinality(products) # Len(product_ids)

CreateOrderMutate(ctbl, ptbl, otbl, customer_id, product_ids, order_date, now) ==
  IF Len(product_ids) = 0
  THEN [tbl |-> otbl, error |-> "At least one product must be selected"]
  ELSE IF CustomerGet(ctbl, customer_id) = {}
  THEN [tbl |-> otbl, error |-> "Invalid customer ID"]
  ELSE LET customer == CHOOSE c \in CustomerGet(ctbl, customer_id) : TRUE
           products == ProductFilterIdIn(ptbl, product_ids)
       IN IF CountMismatch(products, product_ids)
          THEN [tbl |-> otbl, error |-> "Invalid product ID"]
          ELSE LET ins == OrderCreate(otbl, customer, SumPrices(products),
                                      OrderDate(order_date, now), products)
               IN [tbl |-> ins.tbl, error |-> NoError, order |-> ins.row]

(***************************************************************************)
(* Requests handled one at a time                                          *)
(***************************************************************************)
\* the cap on the product and order rows of a run (the tables only grow)
MaxInserts == 3

Room == Product.seq + Order.seq < MaxInserts

\* the createProduct request
CreateProduct(name, price, stock) ==
  /\ Room
  /\ LET r == CreateProductMutate(Product, name, price, stock)
     IN /\ Product' = r.tbl
        /\ last' = [op |-> "createProduct", name |-> name, price |-> price,
                    stock |-> stock, error |-> r.error,
                    product |-> IF r.error = NoError THEN Some(r.product)
                                ELSE None]
  /\ UNCHANGED <<Customer, Order, reqs>>

\* the createOrder request; now is what timezone.now() returns during it
CreateOrder(customer_id, product_ids, order_date, now) ==
  /\ Room
  /\ LET r == CreateOrderMutate(Customer, Product, Order, customer_id,
                                product_ids, order_date, now)
     IN /\ Order' = r.tbl
        /\ last' = [op |-> "createOrder", customer_id |-> customer_id,
                    product_ids |-> product_ids, order_date |-> order_date,
                    now |-> now, error |-> r.error,
                    order |-> IF r.error = NoError THEN Some(r.order)
                              ELSE None]
  /\ UNCHANGED <<Customer, Product, reqs>>

(***************************************************************************)
(* CRMQuery                                                                *)
(***************************************************************************)
\* resolve_customers: Customer.objects.all()
resolve_customers ==
  /\ last' = [op |-> "customers", error |-> NoError, result |-> Customer.rows]
  /\ UNCHANGED <<Customer, Product, Order, reqs>>

\* resolve_products: Product.objects.all()
resolve_products ==
  /\ last' = [op |-> "products", error |-> NoError, result |-> Product.rows]
  /\ UNCHANGED <<Customer, Product, Order, reqs>>

\* resolve_orders: Order.objects.all()
resolve_orders ==
  /\ last' = [op |-> "orders", error |-> NoError, result |-> Order.rows]
  /\ UNCHANGED <<Customer, Product, Order, reqs>>

(***************************************************************************)
(* Inputs                                                                  *)
(***************************************************************************)
Names == {"Ann"}

Emails == {"a@x.io", "b@x.io"}

DashedPhone == Digs(3) \o <<"-">> \o Digs(3) \o <<"-">> \o Digs(4)

\* phones around every edge of the pattern
PhoneSamples ==
  {None, Some(<<>>), Some(DashedPhone), Some(DashedPhone \o <<"\n">>),
   Some(DashedPhone \o <<"\n", "\n">>), Some(DashedPhone \o <<" ">>),
   Some(Digs(3) \o <<"-">> \o Digs(3) \o <<"-">> \o Digs(3)),
   Some(Digs(10)), Some(<<"+">>), Some(<<"\n">>),
   Some(<<"+">> \o Digs(9) \o <<"x">>),
   Some(<<"+">> \o Digs(10) \o <<"\n">>),
   Some(<<" ", "+">> \o Digs(10)), Some(<<"+", "U+0663">> \o Digs(9))}
  \cup {Some(<<"+">> \o Digs(n)) : n \in (MinIntlDigits - 1)..(MaxIntlDigits + 1)}

\* the longest input list of bulkCreateCustomers
MaxRows == 2

BulkPhones == {None, Some(<<"+">> \o Digs(10)), Some(<<"1", "2">>)}

BulkRows == [name : Names, email : Emails, phone : BulkPhones]

RECURSIVE SeqsUpTo(_, _)
SeqsUpTo(S, n) ==
  IF n = 0 THEN {<<>>}
  ELSE LET shorter == SeqsUpTo(S, n - 1)
       IN shorter \cup {Append(s, x) : s \in {t \in shorter : Len(t) = n - 1},
                                            x \in S}

BulkInputs == SeqsUpTo(BulkRows, MaxRows)

ProductNames == {"Pen"}

Prices == -1..2

Stocks == {None, Some(-1), Some(0), Some(1)}

CustomerIds == {1, 2}

ProductIdLists ==
  {<<>>, <<1>>, <<3>>, <<1, 2>>, <<2, 1>>, <<1, 1>>, <<1, 3>>, <<1, 2, 3>>}

OrderDates == {None, Some(5)}

Times == {20, 21}

\* the customer inputs of the specification of all four mutations
FewPhones == {None, Some(<<"1", "2">>)}

FewBulkInputs ==
  {input \in SeqsUpTo([name : Names, email : Emails, phone : {None}], 2) :
     Len(input) >= 1}

FewPrices == 0..2

FewStocks == {None, Some(-1)}

(***************************************************************************)
(* Requests that interleave: each handler runs query by query, so that     *)
(* another request may run between its existence check and its INSERT.     *)
(* A row inserted inside an atomic block is seen by the others at once.    *)
(***************************************************************************)
Procs == {1, 2}

\* the requests one worker handles in a run
MaxRequests == 1

Idle == [pc |-> "idle", n |-> 0]

CanStart(p) == reqs[p].pc \in {"idle", "done"} /\ reqs[p].n < MaxRequests

\* a worker takes a createCustomer request
StartCreateCustomer(p, name, email, phone) ==
  /\ CanStart(p)
  /\ reqs' = [reqs EXCEPT ![p] = [pc |-> "cc_check", n |-> reqs[p].n + 1,
                                  op |-> "createCustomer", name |-> name,
                                  email |-> email, phone |-> phone]]
  /\ UNCHANGED <<Customer, Product, Order, last>>

Done(r, error) == [r EXCEPT !.pc = "done"] @@ [error |-> error]

\* CreateCustomer.mutate up to the INSERT: the existence query, validate_phone
CcCheck(p) ==
  LET r == reqs[p]
  IN /\ r.pc = "cc_check"
     /\ reqs' = [reqs EXCEPT ![p] =
          IF EmailExists(Customer, r.email)
          THEN Done(r, "Email already exists")
          ELSE IF validate_phone_raises(r.phone)
          THEN Done(r, "Invalid phone format")
          ELSE [r EXCEPT !.pc = "cc_insert"]]
     /\ UNCHANGED <<Customer, Product, Order, last>>

\* CreateCustomer.mutate: Customer.objects.create and the return
CcInsert(p) ==
  LET r == reqs[p]
      ins == CustomerCreate(Customer, r.name, r.email, r.phone)
  IN /\ r.pc = "cc_insert"
     /\ Customer' = ins.tbl
     /\ reqs' = [reqs EXCEPT ![p] = Done(r, ins.error)]
     /\ UNCHANGED <<Product, Order, last>>

\* a worker takes a bulkCreateCustomers request and enters the atomic block
StartBulk(p, input) ==
  /\ CanStart(p)
  /\ reqs' = [reqs EXCEPT ![p] = [pc |-> "bulk_check", n |-> reqs[p].n + 1,
                                  op |-> "bulkCreateCustomers",
                                  input |-> input, idx |-> 0,
                                  created |-> <<>>, errors |-> <<>>,
                                  broken |-> FALSE]]
  /\ UNCHANGED <<Customer, Product, Order, last>>

\* one row of BulkCreateCustomers.mutate up to the INSERT
BulkCheck(p) ==
  LET r == reqs[p]
      data == r.input[r.idx + 1]
      Fail(msg) == [r EXCEPT !.errors = Append(@, RowError(r.idx, msg)),
                             !.idx = @ + 1]
  IN /\ r.pc = "bulk_check"
     /\ r.idx < Len(r.input)
     /\ reqs' = [reqs EXCEPT ![p] =
          IF r.broken THEN Fail(BrokenTransaction)
          ELSE IF EmailExists(Customer, data.email)
          THEN Fail("Email already exists")
          ELSE IF validate_phone_raises(data.phone)
          THEN Fail("Invalid phone format")
          ELSE [r EXCEPT !.pc = "bulk_insert"]]
     /\ UNCHANGED <<Customer, Product, Order, last>>

\* one row of BulkCreateCustomers.mutate: Customer.objects.create, append
BulkInsert(p) ==
  LET r == reqs[p]
      data == r.input[r.idx + 1]
      ins == CustomerCreate(Customer, data.name, data.email, data.phone)
  IN /\ r.pc = "bulk_insert"
     /\ Customer' = ins.tbl
     /\ reqs' = [reqs EXCEPT ![p] =
          IF ins.error # NoError
          THEN [r EXCEPT !.errors = Append(@, RowError(r.idx, ins.error)),
                         !.broken = TRUE, !.idx = @ + 1, !.pc = "bulk_check"]
          ELSE [r EXCEPT !.created = Append(@, Val(ins.row)),
                         !.idx = @ + 1, !.pc = "bulk_check"]]
     /\ UNCHANGED <<Product, Order, last>>

\* the end of the loop: the atomic block is left and the call returns
BulkExit(p) ==
  LET r == reqs[p]
  IN /\ r.pc = "bulk_check"
     /\ r.idx >= Len(r.input)
     /\ Customer' = AtomicExit(Customer, r.created, r.broken)
     /\ reqs' = [reqs EXCEPT ![p] = Done(r, NoError)]
     /\ UNCHANGED <<Product, Order, last>>

ConcRows == [name : Names, email : Emails, phone : {None}]

ConcInputs == {input \in SeqsUpTo(ConcRows, 2) : Len(input) >= 1}

Init ==
  /\ Customer = EmptyTable
  /\ Product = EmptyTable
  /\ Order = EmptyTable
  /\ last = [op |-> "none", error |-> NoError]
  /\ reqs = [p \in Procs |-> Idle]

\* all four mutations and the three queries
Next ==
  \/ \E n \in Names, e \in Emails, p \in FewPhones : CreateCustomer(n, e, p)
  \/ \E input \in FewBulkInputs : BulkCreateCustomers(input)
  \/ \E n \in ProductNames, price \in FewPrices, s \in FewStocks :
       CreateProduct(n, price, s)
  \/ \E c \in CustomerIds, ids \in ProductIdLists, d \in OrderDates,
        now \in Times : CreateOrder(c, ids, d, now)
  \/ resolve_customers
  \/ resolve_products
  \/ resolve_orders

Spec == Init /\ [][Next]_vars

\* the customer mutations
CustNext ==
  \/ \E n \in Names, e \in Emails, p \in BulkPhones : CreateCustomer(n, e, p)
  \/ \E input \in BulkInputs : BulkCreateCustomers(input)
  \/ resolve_customers

CustSpec == Init /\ [][CustNext]_vars

\* createCustomer over the phone samples
PhoneNext ==
  \/ \E n \in Names, e \in Emails, p \in PhoneSamples : CreateCustomer(n, e, p)
  \/ resolve_customers

PhoneSpec == Init /\ [][PhoneNext]_vars

\* createProduct over the prices and stocks
ProdNext ==
  \/ \E n \in ProductNames, price \in Prices, s \in Stocks :
       CreateProduct(n, price, s)
  \/ resolve_products

ProdSpec == Init /\ [][ProdNext]_vars

\* the customer mutations of two workers, interleaved
ConcNext ==
  \E p \in Procs :
    \/ \E n \in Names, e \in Emails : StartCreateCustomer(p, n, e, None)
    \/ CcCheck(p)
    \/ CcInsert(p)
    \/ \E input \in ConcInputs : StartBulk(p, input)
    \/ BulkCheck(p)
    \/ BulkInsert(p)
    \/ BulkExit(p)

ConcSpec == Init /\ [][ConcNext]_vars

(***************************************************************************)
(* The properties                                                          *)
(***************************************************************************)
EmailsOf(rows) == {c.email : c \in rows}

\* the step is the handling of one request of that kind
IsCall(op) == last'.op = op

\* C1: createCustomer with the email of a persisted customer is rejected
\* with "Email already exists", and the persisted customers are the same
\* after the call as before it.
C1_DuplicateEmailRejected ==
  [][(IsCall("createCustomer") /\ last'.email \in EmailsOf(Customer.rows))
       => (/\ last'.error = "Email already exists"
           /\ last'.customer = None
           /\ Customer'.rows = Customer.rows)]_vars

C1_Witness ==
  /\ last.op = "createCustomer"
  /\ last.error = "Email already exists"
  /\ last.email \in EmailsOf(Customer.rows)

\* the database's own errors, as they would reach a response
DatabaseErrors == {"IntegrityError", BrokenTransaction}

SurfacedDatabaseError ==
  \/ last.error \in DatabaseErrors
  \/ /\ last.op = "bulkCreateCustomers"
     /\ \E i \in 1..Len(last.errors) : last.errors[i][4] \in DatabaseErrors

\* C2: after any sequence of createCustomer and bulkCreateCustomers calls
\* handled one at a time (bulk inputs that repeat an email included), no two
\* persisted customers have the same email; the existence query is what
\* refuses the duplicates: the unique column of the database never has to.
C2_UniqueEmails ==
  /\ \A c1, c2 \in Customer.rows : c1.email = c2.email => c1 = c2
  /\ ~SurfacedDatabaseError

C2_Witness ==
  /\ last.op = "bulkCreateCustomers"
  /\ \E i, j \in 1..Len(last.input) :
       i < j /\ last.input[i].email = last.input[j].email
  /\ Cardinality(Customer.rows) = 2

\* row i of a bulk input is persisted: its email is not in the table, its
\* phone passes, and no earlier row of the input took the email
RowPersisted(rows, input, i) ==
  /\ input[i].email \notin EmailsOf(rows)
  /\ ~validate_phone_raises(input[i].phone)
  /\ \A j \in 1..(i - 1) :
       input[j].email = input[i].email => validate_phone_raises(input[j].phone)

RowMessage(rows, input, i) ==
  IF \/ input[i].email \in EmailsOf(rows)
     \/ \E j \in 1..(i - 1) : RowPersisted(rows, input, j)
                                /\ input[j].email = input[i].email
  THEN "Email already exists"
  ELSE "Invalid phone format"

PersistedUpTo(rows, input, i) ==
  Cardinality({j \in 1..i : RowPersisted(rows, input, j)})

\* C7: bulkCreateCustomers never fails as a whole; row by row in input
\* order, a row is either persisted and appended to the returned customers
\* or yields the one error "Row i: <message>" with its 1-based position;
\* customers plus errors count the rows; the rows that succeeded are
\* persisted after the call, whatever the other rows did.
C7_BulkRowByRow ==
  [][IsCall("bulkCreateCustomers") =>
       LET input == last'.input
           made == last'.customers
           errs == last'.errors
       IN /\ last'.error = NoError
          /\ Len(made) + Len(errs) = Len(input)
          /\ \A i \in 1..Len(input) :
               LET k == PersistedUpTo(Customer.rows, input, i)
               IN IF RowPersisted(Customer.rows, input, i)
                  THEN /\ k <= Len(made)
                       /\ made[k].name = input[i].name
                       /\ made[k].email = input[i].email
                       /\ made[k].phone = input[i].phone
                       /\ made[k] \in Customer'.rows
                       /\ made[k] \notin Customer.rows
                  ELSE /\ i - k <= Len(errs)
                       /\ errs[i - k] = <<"Row ", i, ": ",
                                          RowMessage(Customer.rows, input, i)>>
          /\ Customer'.rows = Customer.rows \cup {made[k] : k \in 1..Len(made)}]_vars

C7_Witness ==
  /\ last.op = "bulkCreateCustomers"
  /\ Len(last.input) = 2
  /\ last.input[1].email = last.input[2].email
  /\ Len(last.customers) = 1
  /\ last.customers[1] \in Customer.rows
  /\ last.errors = << <<"Row ", 2, ": ", "Email already exists">> >>

\* the two accepted shapes, as the pattern is described: "+" and 10 to 15
\* digits, or three digits, dash, three digits, dash, four digits
AcceptedShape(s) ==
  \/ /\ Len(s) \in (1 + MinIntlDigits)..(1 + MaxIntlDigits)
     /\ s[1] = "+"
     /\ \A i \in 2..Len(s) : IsDigit(s[i])
  \/ /\ Len(s) = 12
     /\ \A i \in 1..12 : IF i \in {4, 8} THEN s[i] = "-" ELSE IsDigit(s[i])

CreatedAs(name, email, phone) ==
  /\ last'.error = NoError
  /\ \E c \in Customer'.rows \ Customer.rows :
       /\ Customer'.rows = Customer.rows \cup {c}
       /\ last'.customer = Some(c)
       /\ c.name = name /\ c.email = email /\ c.phone = phone

\* C3: for every phone value supplied to createCustomer (with a new email):
\* a value of neither accepted shape is rejected with "Invalid phone format"
\* and nothing is persisted; a value of an accepted shape creates the
\* customer; a call that omits the phone is accepted.
C3_PhoneValidated ==
  [][(IsCall("createCustomer") /\ last'.email \notin EmailsOf(Customer.rows))
       => IF IsNone(last'.phone) \/ AcceptedShape(Val(last'.phone))
          THEN CreatedAs(last'.name, last'.email, last'.phone)
          ELSE /\ last'.error = "Invalid phone format"
               /\ Customer'.rows = Customer.rows]_vars

\* createProduct was refused with that message and nothing was persisted
ProductRefused(msg) ==
  /\ last'.error = msg
  /\ last'.product = None
  /\ Product' = Product

\* C4: createProduct is rejected with "Price must be positive" when
\* price <= 0 and (the price being positive) with "Stock cannot be negative"
\* when stock < 0, nothing being persisted in either case; an omitted stock
\* is 0; every persisted product has price > 0 and stock >= 0.
C4_ProductChecked ==
  /\ [](\A p \in Product.rows : p.price > 0 /\ p.stock >= 0)
  /\ [][IsCall("createProduct") =>
          LET price == last'.price
              stock == last'.stock
              bad == ~IsNone(stock) /\ Val(stock) < 0
          IN /\ price <= 0 => ProductRefused("Price must be positive")
             /\ (price > 0 /\ bad) => ProductRefused("Stock cannot be negative")
             /\ (price > 0 /\ ~bad) =>
                  /\ last'.error = NoError
                  /\ \E q \in Product'.rows \ Product.rows :
                       /\ Product'.rows = Product.rows \cup {q}
                       /\ last'.product = Some(q)
                       /\ q.price = price
                       /\ q.stock = IF IsNone(stock) THEN 0 ELSE Val(stock)]_vars

C4_Witness ==
  /\ last.op = "createProduct"
  /\ last.error = NoError
  /\ IsNone(last.stock)
  /\ Val(last.product).stock = 0
  /\ Val(last.product) \in Product.rows
  /\ Cardinality(Product.rows) >= 2

IdsOf(rows) == {r.id : r \in rows}

Distinct(ids) == \A i, j \in 1..Len(ids) : ids[i] = ids[j] => i = j

RECURSIVE PriceSum(_, _)
\* the sum of the prices of the products of rows whose ids are in ids
PriceSum(rows, ids) ==
  IF ids = {} THEN 0
  ELSE LET id == CHOOSE x \in ids : TRUE
           price == IF \E p \in rows : p.id = id
                    THEN (CHOOSE p \in rows : p.id = id).price ELSE 0
       IN price + PriceSum(rows, ids \ {id})

\* C5: createOrder with an existing customer id and a non-empty list of
\* distinct ids of existing products persists exactly one new order, of that
\* customer and exactly those products, whose total_amount is the sum of
\* their prices and whose date is order_date, or the current time when none
\* is supplied.
C5_OrderCreated ==
  [][(/\ IsCall("createOrder")
      /\ last'.customer_id \in IdsOf(Customer.rows)
      /\ Len(last'.product_ids) > 0
      /\ Distinct(last'.product_ids)
      /\ Range(last'.product_ids) \subseteq IdsOf(Product.rows))
       => /\ last'.error = NoError
          /\ \E o \in Order'.rows \ Order.rows :
               /\ Order'.rows = Order.rows \cup {o}
               /\ o.id \notin IdsOf(Order.rows)
               /\ last'.order = Some(o)
               /\ o.customer = last'.customer_id
               /\ o.products = Range(last'.product_ids)
               /\ o.total_amount = PriceSum(Product.rows, o.products)
               /\ o.order_date = IF IsNone(last'.order_date) THEN last'.now
                                 ELSE Val(last'.order_date)]_vars

C5_Witness ==
  /\ last.op = "createOrder"
  /\ last.error = NoError
  /\ Len(last.product_ids) = 2
  /\ IsNone(last.order_date)
  /\ Val(last.order).total_amount = 3
  /\ Val(last.order) \in Order.rows

OrderRefused(msg) ==
  /\ last'.error = msg
  /\ last'.order = None
  /\ Order' = Order

C8_OnlyUnknownIdsRefused ==
  [][(/\ IsCall("createOrder")
      /\ last'.customer_id \in IdsOf(Customer.rows)
      /\ Len(last'.product_ids) > 0
      /\ Range(last'.product_ids) \subseteq IdsOf(Product.rows))
       => /\ last'.error = NoError
          /\ Order'.rows # Order.rows]_vars

C10_OnlyInserts ==
  /\ [](\A o \in Order.rows :
          /\ o.products \subseteq IdsOf(Product.rows)
          /\ o.total_amount = PriceSum(Product.rows, o.products))
  /\ [][/\ Customer.rows \subseteq Customer'.rows
        /\ Product.rows \subseteq Product'.rows
        /\ Order.rows \subseteq Order'.rows
        /\ \A t \in {Customer', Product', Order'} :
             \A r1, r2 \in t.rows : r1.id = r2.id => r1 = r2
        /\ last'.op \in {"createCustomer", "bulkCreateCustomers"}
             => Product' = Product /\ Order' = Order
        /\ last'.op = "createProduct" => Customer' = Customer /\ Order' = Order
        /\ last'.op = "createOrder" => Customer' = Customer /\ Product' = Product
        /\ last'.op \in {"customers", "products", "orders"}
             => Customer' = Customer /\ Product' = Product /\ Order' = Order
        /\ last'.error # NoError
             => Customer' = Customer /\ Product' = Product /\ Order' = Order]_vars

C10_Witness ==
  /\ \E o \in Order.rows : Cardinality(o.products) = 2
  /\ last.op = "createCustomer"
  /\ last.error = NoError
  /\ Val(last.customer).id = 2

====
